---- MODULE Spec2Model ----
(***************************************************************************)
(* The page-view badge worker (src/worker.ts): one fetch handler that      *)
(* answers from the shared response cache or, on a miss, acquires a token, *)
(* queries the analytics backend, folds the report into a count, renders   *)
(* the badge and hands the cache write to the runtime.                     *)
(*                                                                         *)
(* Strings the code inspects (query keys and values, metric values, badge  *)
(* texts) are sequences of one-character strings; messages the code only   *)
(* passes through are TLA+ strings.                                        *)
(***************************************************************************)
EXTENDS Integers, Sequences, FiniteSets, TLC

\* ------------------------------------------------------------------ bounds
\* Handler invocations that may be in progress at once.
MaxConcurrent == 2
\* Requests that arrive in one behaviour.
MaxArrivals == 3
\* Page views the backend records per page.
MaxViews == 1

\* ------------------------------------------------------ program constants
IMAGE_CACHE_SECONDS == 45 * 60
GOOGLE_CALL_CACHE_TTL_SECONDS == 45 * 60

\* ----------------------------------------------------------------- strings
\* String.prototype.toLowerCase on one character of the model's alphabet.
LowerChar(c) ==
  CASE c = "A" -> "a"
    [] c = "B" -> "b"
    [] c = "E" -> "e"
    [] c = "G" -> "g"
    [] c = "H" -> "h"
    [] c = "P" -> "p"
    [] c = "T" -> "t"
    [] OTHER -> c

toLowerCase(s) == [i \in 1..Len(s) |-> LowerChar(s[i])]

RECURSIVE trimStart(_)
trimStart(s) ==
  IF s # <<>> /\ Head(s) = " " THEN trimStart(Tail(s)) ELSE s

RECURSIVE trimEnd(_)
trimEnd(s) ==
  IF s # <<>> /\ s[Len(s)] = " " THEN trimEnd(SubSeq(s, 1, Len(s) - 1)) ELSE s

\* String.prototype.trim
trim(s) == trimEnd(trimStart(s))

\* s starts with the characters of pat
StartsWith(s, pat) ==
  /\ Len(pat) <= Len(s)
  /\ SubSeq(s, 1, Len(pat)) = pat

\* the backend's CONTAINS match type: pat is a substring of s
Contains(s, pat) ==
  \E i \in 1..(Len(s) + 1) :
    /\ i + Len(pat) - 1 <= Len(s)
    /\ SubSeq(s, i, i + Len(pat) - 1) = pat

\* String.prototype.replace with a global pattern: left to right, no overlap
RECURSIVE replaceAll(_, _, _)
replaceAll(s, pat, rep) ==
  IF s = <<>> THEN <<>>
  ELSE IF StartsWith(s, pat)
       THEN rep \o replaceAll(SubSeq(s, Len(pat) + 1, Len(s)), pat, rep)
       ELSE <<Head(s)>> \o replaceAll(Tail(s), pat, rep)

\* the value the code reads where JavaScript has undefined
Undefined == <<"undefined">>

\* ----------------------------------------------------------------- numbers
\* A JavaScript number as the handler sees it: an integer or NaN.
Num(n) == [nan |-> FALSE, n |-> n]
NaN == [nan |-> TRUE, n |-> 0]

Plus(x, y) == IF x.nan \/ y.nan THEN NaN ELSE Num(x.n + y.n)

Digits == <<"0", "1", "2", "3", "4", "5", "6", "7", "8", "9">>

IsDigit(c) == \E d \in 1..10 : Digits[d] = c

DigitValue(c) == (CHOOSE d \in 1..10 : Digits[d] = c) - 1

\* Number.prototype.toString of a non-negative integer
RECURSIVE ToDecimal(_)
ToDecimal(n) ==
  IF n < 10 THEN <<Digits[n + 1]>>
  ELSE ToDecimal(n \div 10) \o <<Digits[(n % 10) + 1]>>

\* the value of the longest prefix of digits of s, from acc; found tells
\* whether a digit has been read
RECURSIVE ParseDigits(_, _, _)
ParseDigits(s, acc, found) ==
  IF s # <<>> /\ IsDigit(Head(s))
  THEN ParseDigits(Tail(s), acc * 10 + DigitValue(Head(s)), TRUE)
  ELSE IF found THEN Num(acc) ELSE NaN

\* parseInt(s): leading whitespace skipped, an optional sign, then the
\* longest prefix of digits; NaN when there is none
parseInt(s) ==
  LET t == trimStart(s)
  IN  IF t # <<>> /\ Head(t) = "-"
      THEN LET m == ParseDigits(Tail(t), 0, FALSE)
           IN  IF m.nan THEN NaN ELSE Num(0 - m.n)
      ELSE IF t # <<>> /\ Head(t) = "+"
           THEN ParseDigits(Tail(t), 0, FALSE)
           ELSE ParseDigits(t, 0, FALSE)

Abs(n) == IF n < 0 THEN 0 - n ELSE n

\* the largest L at or above from with 5 * 2^L <= n
RECURSIVE Log2Fifth(_, _)
Log2Fifth(n, from) ==
  IF 5 * 2^(from + 1) <= n THEN Log2Fifth(n, from + 1) ELSE from

\* For odd n >= 5, whether the double nearest to n/20 is at or above n/20.
\* The quotient of the division is n/20 rounded to a 53-bit significand:
\* with 2^52 <= n * 2^e / 5 < 2^53 the significand is n * 2^e / 5 rounded
\* to an integer, which goes up exactly when the remainder of n * 2^e by 5
\* is 3 or 4; a multiple of 5 divides exactly. The powers of 2 repeat
\* 1, 2, 4, 3 modulo 5.
HalfwayRoundsUp(n) ==
  IF n % 5 = 0 THEN TRUE
  ELSE LET e == 52 - Log2Fifth(n, 0)
           r == ((n % 5) * <<1, 2, 4, 3>>[(e % 4) + 1]) % 5
       IN  r >= 3

\* a variant of toFixedScaled that always asks toFixed for one decimal
toFixedScaledOneDecimal(absNum, divisor) ==
  LET tenths == (absNum * 10 + divisor \div 2) \div divisor
  IN  ToDecimal(tenths \div 10) \o <<".">> \o ToDecimal(tenths % 10)

\* (absNum / divisor).toFixed(whole ? 0 : 1), absNum an integer at or above
\* divisor. toFixed(1) gives the tenths nearest to the quotient as the
\* double holds it, the larger when both are as near: a quotient that lies
\* halfway between two tenths goes the way the division rounded it.
toFixedScaled(absNum, divisor) ==
  IF absNum % divisor = 0
  THEN ToDecimal(absNum \div divisor)
  ELSE LET floor == (absNum * 10) \div divisor
           rest == (absNum * 10) % divisor
           tenths == IF 2 * rest < divisor THEN floor
                     ELSE IF 2 * rest > divisor THEN floor + 1
                     ELSE IF HalfwayRoundsUp(2 * floor + 1) THEN floor + 1 ELSE floor
       IN  ToDecimal(tenths \div 10) \o <<".">> \o ToDecimal(tenths % 10)

formatNumber(num) ==
  IF num.nan
  THEN <<"N", "a", "N", "M">>
  ELSE LET sign == IF num.n < 0 THEN <<"-">> ELSE <<>>
           absNum == Abs(num.n)
       IN  IF absNum < 1000
           THEN sign \o ToDecimal(absNum)
           ELSE IF absNum < 1000000
                THEN sign \o toFixedScaled(absNum, 1000) \o <<"K">>
                ELSE sign \o toFixedScaled(absNum, 1000000) \o <<"M">>

\* ------------------------------------------------------------------- badge
getTextWidth(text) == Len(text) * 8 + 10

CommentEnd == <<"-", "-", ">">>

\* what replaces "-->" inside a metadata comment: the three characters
\* U+00E2, U+20AC, U+201D of the source, named here in ASCII, then ">"
CommentEndSubstitute == <<"U+00E2", "U+20AC", "U+201D", ">">>

\* a variant of MetadataComment that embeds the item as it is
MetadataCommentUnescaped(item) ==
  <<"<", "!", "-", "-", " ", "METADATA: ">> \o item \o <<" ", "-", "-", ">">>

MetadataComment(item) ==
  <<"<", "!", "-", "-", " ", "METADATA: ">> \o replaceAll(item, CommentEnd, CommentEndSubstitute)
    \o <<" ", "-", "-", ">">>

\* The SVG document as the values interpolated into the fixed template.
generateBadge(label, value, metadata) ==
  LET valueText == value
      labelWidth == getTextWidth(label)
      valueWidth == getTextWidth(valueText)
      totalWidth == labelWidth + valueWidth
  IN  [ label |-> label,
        valueText |-> valueText,
        labelWidth |-> labelWidth,
        valueWidth |-> valueWidth,
        totalWidth |-> totalWidth,
        height |-> 20,
        metadataComments |-> [i \in 1..Len(metadata) |-> MetadataComment(metadata[i])] ]

NoBadge ==
  [ label |-> <<>>, valueText |-> <<>>, labelWidth |-> 0, valueWidth |-> 0,
    totalWidth |-> 0, height |-> 0, metadataComments |-> <<>> ]

\* ------------------------------------------------------------------ report
RECURSIVE FlatValues(_, _)
FlatValues(rows, key) ==
  IF rows = <<>> THEN <<>>
  ELSE [i \in 1..Len(Head(rows)[key]) |-> Head(rows)[key][i].value]
         \o FlatValues(Tail(rows), key)

\* every value of the rows' dimensionKey lists, in row order; a report
\* without rows gives none
getValues(analyticsResponse, dimensionKey) ==
  FlatValues(IF analyticsResponse.hasRows THEN analyticsResponse.rows ELSE <<>>,
             dimensionKey)

RECURSIVE SumParsed(_)
SumParsed(values) ==
  IF values = <<>> THEN Num(0)
  ELSE LET v == values[Len(values)]
       IN  Plus(SumParsed(SubSeq(values, 1, Len(values) - 1)),
                parseInt(IF v = Undefined THEN <<"0">> ELSE v))

\* getValues(data, 'metricValues').map(parseInt).reduce(+, 0)
Counts(data) == SumParsed(getValues(data, "metricValues"))

\* --------------------------------------------------------------- responses
NoBody == [kind |-> "none", text |-> "", error |-> "", timestamp |-> FALSE, badge |-> NoBadge]

\* the absence of a response (cache.match's undefined)
NoResponse ==
  [status |-> 0, contentType |-> "", cacheControl |-> 0, allowOrigin |-> "", body |-> NoBody]

TextResponse(text, status) ==
  [ status |-> status, contentType |-> "text/plain", cacheControl |-> 0, allowOrigin |-> "",
    body |-> [NoBody EXCEPT !.kind = "text", !.text = text] ]

\* a variant of UpstreamErrorResponse that leaves the status at its default
UpstreamErrorResponseDefaultStatus(errorBody) ==
  [ status |-> 200, contentType |-> "application/json", cacheControl |-> 0, allowOrigin |-> "",
    body |-> [NoBody EXCEPT !.kind = "json", !.error = errorBody] ]

\* the 500 of a non-success backend answer: { error: <backend body> }
UpstreamErrorResponse(errorBody) ==
  [ status |-> 500, contentType |-> "application/json", cacheControl |-> 0, allowOrigin |-> "",
    body |-> [NoBody EXCEPT !.kind = "json", !.error = errorBody] ]

\* a variant of CatchResponse whose body carries the message alone
CatchResponseWithoutTimestamp(message) ==
  [ status |-> 500, contentType |-> "application/json", cacheControl |-> 0, allowOrigin |-> "",
    body |-> [NoBody EXCEPT !.kind = "json",
                            !.error = IF message = "" THEN "Internal server error" ELSE message] ]

\* the catch block: { error: message || 'Internal server error', timestamp }
CatchResponse(message) ==
  [ status |-> 500, contentType |-> "application/json", cacheControl |-> 0, allowOrigin |-> "",
    body |-> [NoBody EXCEPT !.kind = "json",
                            !.error = IF message = "" THEN "Internal server error" ELSE message,
                            !.timestamp = TRUE] ]

Readers == <<"r", "e", "a", "d", "e", "r", "s">>

\* a variant of BadgeResponse with the max-age of the worker's older
\* version, one hour
BadgeResponseHourMaxAge(data) ==
  [ status |-> 200, contentType |-> "image/svg+xml",
    cacheControl |-> 60 * 60, allowOrigin |-> "*",
    body |-> [NoBody EXCEPT !.kind = "svg",
                            !.badge = generateBadge(Readers,
                                                    formatNumber(Counts(data)),
                                                    getValues(data, "dimensionValues"))] ]

\* lines 217-229: aggregate, format, render
BadgeResponse(data) ==
  LET counts == Counts(data)
      dimensionValues == getValues(data, "dimensionValues")
  IN  [ status |-> 200, contentType |-> "image/svg+xml",
        cacheControl |-> IMAGE_CACHE_SECONDS, allowOrigin |-> "*",
        body |-> [NoBody EXCEPT !.kind = "svg",
                                !.badge = generateBadge(Readers, formatNumber(counts),
                                                        dimensionValues)] ]

\* ---------------------------------------------------------------- requests
Methods == {"GET", "POST"}

PagePathName == <<"p", "a", "g", "e", "_", "p", "a", "t", "h">>

\* The query strings of the model, each as URLSearchParams lists it:
\* ?page_path=a, ?%20PAGE_PATH=%20B, ?page_path= and ?q=a
UrlA == << <<PagePathName, <<"a">>>> >>
UrlB == << << <<" ", "P", "A", "G", "E", "_", "P", "A", "T", "H">>, <<" ", "B">> >> >>
UrlEmpty == << <<PagePathName, <<>>>> >>
UrlNone == << << <<"q">>, <<"a">> >> >>

Urls == {UrlA, UrlB, UrlEmpty, UrlNone}

\* [...searchParams.entries()].find(key matches "page_path")?.[1]
RECURSIVE FindPagePath(_)
FindPagePath(entries) ==
  IF entries = <<>> THEN Undefined
  ELSE IF trim(toLowerCase(Head(entries)[1])) = PagePathName
       THEN Head(entries)[2]
       ELSE FindPagePath(Tail(entries))

\* a variant of Falsy that lets the empty string through
FalsyOnlyUndefined(page_path) == page_path = Undefined

\* !page_path
Falsy(page_path) == page_path = Undefined \/ page_path = <<>>

\* a variant of MethodNotAllowed that rejects no method
MethodNotAllowedNever(method) == FALSE

\* request.method !== 'GET'
MethodNotAllowed(method) == method # "GET"

\* requestBody.dimensionFilter.filter.stringFilter.value
FilterValue(page_path) == trim(toLowerCase(page_path))

\* a variant of CacheKey that drops the query string
CacheKeyWithoutQuery(request) == <<request.method, UrlA>>

\* the request identity the cache is keyed by: method and full URL
CacheKey(request) == <<request.method, request.url>>

\* The requests of the model, as <<method, URL>>: a GET of each query
\* string and a POST of ?page_path=a
Requests == ({"GET"} \X Urls) \cup {<<"POST", UrlA>>}

Keys == Requests

\* ----------------------------------------------------------------- backend
\* the pages the analytics property knows, in the order it reports them
Pages == << <<"/", "a">>, <<"/", "b">> >>

\* the views the backend has recorded of each page when the worker starts:
\* the first page has a history, the second has none
InitialViews == <<41, 0>>

ReportRow(page, count) ==
  [ dimensionValues |-> << [value |-> page] >>,
    metricValues |-> << [value |-> ToDecimal(count)] >> ]

RECURSIVE MatchingRows(_, _, _)
MatchingRows(i, filter, counts) ==
  IF i > Len(Pages) THEN <<>>
  ELSE (IF Contains(Pages[i], filter) /\ counts[i] > 0
        THEN <<ReportRow(Pages[i], counts[i])>>
        ELSE <<>>) \o MatchingRows(i + 1, filter, counts)

\* the report document for one filter value; the rows key is absent when
\* no row matches
Report(filter, counts) ==
  LET rows == MatchingRows(1, filter, counts)
  IN  [hasRows |-> rows # <<>>, rows |-> rows]

NoData == [hasRows |-> FALSE, rows |-> <<>>]

\* the value of analyticsResponse before the backend has answered
NoAnalyticsResponse == [ok |-> FALSE, errorBody |-> "", parses |-> FALSE, data |-> NoData]

\* what the backend can answer to a report call
BackendShapes == {"report", "badjson", "notok", "reject"}

\* what the auth collaborator can answer
AuthOutcomes == {"token", "undefined", "reject"}

\* ------------------------------------------------------------------- state
VARIABLES
  env,          \* the worker's configuration, fixed at cold start
  req,          \* the handler invocations in progress: one record per slot
  last,         \* the invocation that returned most recently, as it returned
  cache,        \* caches.default: request identity -> stored entry
  pending,      \* cache.put calls handed to ctx.waitUntil, not yet complete
  views,        \* the backend's page-view count of each page
  arrivals,     \* requests received so far
  first,        \* per key: the response first stored since the entry last expired
  changed,      \* per key: a later write replaced that response by a different one
  calc          \* a helper function's input and result, where one is studied alone

vars == <<env, req, last, cache, pending, views, arrivals, first, changed, calc>>

Slots == 1..MaxConcurrent

IdleRequest ==
  [ id |-> 0, method |-> "GET", url |-> UrlA, pc |-> "idle", hit |-> FALSE,
    token |-> "", renderedFor |-> Undefined, analyticsResponse |-> NoAnalyticsResponse,
    response |-> NoResponse, authCalls |-> 0, backendCalls |-> 0, cachePuts |-> 0 ]

\* an absent cache entry; query is the filter value the stored response
\* was rendered from
NoEntry == [response |-> NoResponse, query |-> Undefined]

\* no helper function is studied alone
NoCalc == [fn |-> "none", done |-> FALSE]

\* the worker has started and has received nothing yet
Started ==
  /\ req = [r \in Slots |-> IdleRequest]
  /\ last = IdleRequest
  /\ cache = [k \in Keys |-> NoEntry]
  /\ pending = {}
  /\ views = InitialViews
  /\ arrivals = 0
  /\ first = [k \in Keys |-> NoResponse]
  /\ changed = [k \in Keys |-> FALSE]

Init ==
  /\ env \in [SERVICE_ACCOUNT_CREDENTIALS : {"valid", "malformed"}]
  /\ Started
  /\ calc = NoCalc

\* ----------------------------------------------------------------- handler
\* cache.match(request)
cacheMatch(c, request) == c[CacheKey(request)]

\* a variant of NeedsRender that renders on a hit too
NeedsRenderAlways(response) == TRUE

\* if (!response)
NeedsRender(response) == response = NoResponse

\* a variant of HitResponse that rewrites a header of the stored response
HitResponseModified(entry) == [entry.response EXCEPT !.cacheControl = 0]

\* return response, on a hit
HitResponse(entry) == entry.response

\* a variant of TokenMissing that accepts an absent token
TokenMissingNever(token) == FALSE

\* token === undefined
TokenMissing(token) == token = "undefined"

\* a variant of UpstreamNotOk that takes every answer for a success
UpstreamNotOkNever(analyticsResponse) == FALSE

\* !analyticsResponse.ok
UpstreamNotOk(analyticsResponse) == ~analyticsResponse.ok

\* invocation r goes on to its next await, as the record now
Continue(r, now) ==
  /\ req' = [req EXCEPT ![r] = now]
  /\ last' = last

\* invocation r, as the record now, returns resp: its locals go out of
\* scope and its slot is free again
Finish(r, now, resp) ==
  /\ req' = [req EXCEPT ![r] = IdleRequest]
  /\ last' = [now EXCEPT !.pc = "done", !.response = resp,
                         !.analyticsResponse = NoAnalyticsResponse]

\* a fault thrown inside the try block reaches the catch block
Catch(r, now, message) == Finish(r, now, CatchResponse(message))

\* a request arrives and the handler starts: it awaits cache.match. The
\* invocation takes the lowest free slot.
Arrive(r, method, url) ==
  /\ <<method, url>> \in Requests
  /\ req[r].pc = "idle"
  /\ \A q \in Slots : q < r => req[q].pc # "idle"
  /\ arrivals < MaxArrivals
  /\ arrivals' = arrivals + 1
  /\ Continue(r, [IdleRequest EXCEPT !.id = arrivals + 1, !.method = method,
                                     !.url = url, !.pc = "cache.match"])
  /\ UNCHANGED <<calc, env, cache, pending, views, first, changed>>

\* cache.match answers; on a miss the credentials are parsed and the token
\* is asked for
CacheMatch(r) ==
  /\ req[r].pc = "cache.match"
  /\ LET entry == cacheMatch(cache, req[r])
     IN  IF ~NeedsRender(entry.response)
         THEN Finish(r, [req[r] EXCEPT !.hit = TRUE, !.renderedFor = entry.query],
                     HitResponse(entry))
         ELSE IF env.SERVICE_ACCOUNT_CREDENTIALS = "malformed"
              THEN Catch(r, req[r], "Unexpected token in JSON")
              ELSE Continue(r, [req[r] EXCEPT !.pc = "getGoogleAuthToken",
                                              !.authCalls = @ + 1])
  /\ UNCHANGED <<calc, env, cache, pending, views, arrivals, first, changed>>

\* getGoogleAuthToken answers; with a token the method and the parameter
\* are checked, the query is built and the backend is called
GetGoogleAuthTokenReturn(r, token) ==
  /\ req[r].pc = "getGoogleAuthToken"
  /\ IF token = "reject"
     THEN Catch(r, req[r], "")
     ELSE LET now == [req[r] EXCEPT !.token = token]
          IN  IF TokenMissing(token)
              THEN Catch(r, now, "generating Google auth token failed")
              ELSE IF MethodNotAllowed(req[r].method)
              THEN Finish(r, now, TextResponse("Method not allowed", 405))
              ELSE LET page_path == FindPagePath(req[r].url)
                   IN  IF Falsy(page_path)
                       THEN Finish(r, now, TextResponse("page_path not available", 405))
                       ELSE Continue(r, [now EXCEPT !.pc = "fetch",
                                                    !.renderedFor = FilterValue(page_path),
                                                    !.backendCalls = @ + 1])
  /\ UNCHANGED <<calc, env, cache, pending, views, arrivals, first, changed>>

\* a variant of FetchReturn that calls the backend once more when it
\* answers with a non-success status
FetchReturnRetrying(r, shape) ==
  /\ req[r].pc = "fetch"
  /\ IF shape = "reject"
     THEN Catch(r, req[r], "fetch failed")
     ELSE IF shape = "notok" /\ req[r].backendCalls < 2
          THEN Continue(r, [req[r] EXCEPT !.backendCalls = @ + 1])
          ELSE LET analyticsResponse ==
                     [ ok |-> shape # "notok",
                       errorBody |-> IF shape = "notok" THEN "PERMISSION_DENIED" ELSE "",
                       parses |-> shape = "report",
                       data |-> IF shape = "report"
                                THEN Report(req[r].renderedFor, views) ELSE NoData ]
               IN  Continue(r, [req[r] EXCEPT !.analyticsResponse = analyticsResponse,
                                              !.pc = IF ~analyticsResponse.ok
                                                     THEN "text" ELSE "json"])
  /\ UNCHANGED <<calc, env, cache, pending, views, arrivals, first, changed>>

\* the backend answers the report call (or the call fails); the body is
\* then read as text or as JSON
FetchReturn(r, shape) ==
  /\ req[r].pc = "fetch"
  /\ IF shape = "reject"
     THEN Catch(r, req[r], "fetch failed")
     ELSE LET report == Report(req[r].renderedFor, views)
              analyticsResponse ==
                [ ok |-> shape # "notok",
                  errorBody |-> IF shape = "notok" THEN "PERMISSION_DENIED" ELSE "",
                  parses |-> shape = "report",
                  data |-> IF shape = "report" THEN report ELSE NoData ]
          IN  Continue(r, [req[r] EXCEPT !.analyticsResponse = analyticsResponse,
                                         !.pc = IF UpstreamNotOk(analyticsResponse)
                                                THEN "text" ELSE "json"])
  /\ UNCHANGED <<calc, env, cache, pending, views, arrivals, first, changed>>

\* a variant of TextReturn that also stores the error response in the cache
TextReturnCaching(r) ==
  /\ req[r].pc = "text"
  /\ Finish(r, req[r], UpstreamErrorResponse(req[r].analyticsResponse.errorBody))
  /\ pending' = pending \cup
       { [ id |-> req[r].id, key |-> CacheKey(req[r]),
           entry |-> [ response |-> UpstreamErrorResponse(req[r].analyticsResponse.errorBody),
                       query |-> req[r].renderedFor ] ] }
  /\ UNCHANGED <<calc, env, cache, views, arrivals, first, changed>>

\* a variant of TextReturn that drops the entry stored under the request
\* when the backend fails
TextReturnInvalidating(r) ==
  /\ req[r].pc = "text"
  /\ Finish(r, req[r], UpstreamErrorResponse(req[r].analyticsResponse.errorBody))
  /\ cache' = [cache EXCEPT ![CacheKey(req[r])] = NoEntry]
  /\ first' = [first EXCEPT ![CacheKey(req[r])] = NoResponse]
  /\ changed' = [changed EXCEPT ![CacheKey(req[r])] = FALSE]
  /\ UNCHANGED <<calc, env, pending, views, arrivals>>

\* analyticsResponse.text() answers: the 500 carrying the backend's body
TextReturn(r) ==
  /\ req[r].pc = "text"
  /\ Finish(r, req[r], UpstreamErrorResponse(req[r].analyticsResponse.errorBody))
  /\ UNCHANGED <<calc, env, cache, pending, views, arrivals, first, changed>>

\* a variant of JsonReturn that returns the badge without handing a cache
\* write to the runtime
JsonReturnWithoutPut(r) ==
  /\ req[r].pc = "json"
  /\ IF ~req[r].analyticsResponse.parses
     THEN Catch(r, req[r], "Unexpected end of JSON input")
     ELSE Finish(r, [req[r] EXCEPT !.cachePuts = @ + 1],
                 BadgeResponse(req[r].analyticsResponse.data))
  /\ UNCHANGED <<calc, env, cache, pending, views, arrivals, first, changed>>

\* analyticsResponse.json() answers: aggregate, format, render, hand the
\* cache write to ctx.waitUntil and return the response
JsonReturn(r) ==
  /\ req[r].pc = "json"
  /\ IF ~req[r].analyticsResponse.parses
     THEN /\ Catch(r, req[r], "Unexpected end of JSON input")
          /\ UNCHANGED pending
     ELSE LET response == BadgeResponse(req[r].analyticsResponse.data)
          IN  /\ Finish(r, [req[r] EXCEPT !.cachePuts = @ + 1], response)
              /\ pending' = pending \cup
                   { [ id |-> req[r].id, key |-> CacheKey(req[r]),
                       entry |-> [response |-> response, query |-> req[r].renderedFor] ] }
  /\ UNCHANGED <<calc, env, cache, views, arrivals, first, changed>>

\* ----------------------------------------------------------------- runtime
\* a variant of CachePutComplete that keeps an entry already stored
CachePutCompleteKeepsFirst(id) ==
  \E w \in pending :
    /\ w.id = id
    /\ pending' = pending \ {w}
    /\ cache' = IF cache[w.key] = NoEntry THEN [cache EXCEPT ![w.key] = w.entry] ELSE cache
    /\ first' = IF cache[w.key] = NoEntry
                THEN [first EXCEPT ![w.key] = w.entry.response] ELSE first
    /\ changed' = IF cache[w.key] = NoEntry
                  THEN [changed EXCEPT ![w.key] = FALSE] ELSE changed
    /\ UNCHANGED <<calc, env, req, last, views, arrivals>>

\* the cache.put of request number id completes
CachePutComplete(id) ==
  \E w \in pending :
    /\ w.id = id
    /\ pending' = pending \ {w}
    /\ cache' = [cache EXCEPT ![w.key] = w.entry]
    /\ IF cache[w.key] = NoEntry
       THEN /\ first' = [first EXCEPT ![w.key] = w.entry.response]
            /\ changed' = [changed EXCEPT ![w.key] = FALSE]
       ELSE /\ first' = first
            /\ changed' = [changed EXCEPT ![w.key] =
                             @ \/ w.entry.response # cache[w.key].response]
    /\ UNCHANGED <<calc, env, req, last, views, arrivals>>

\* the entry under key k reaches its max-age and is dropped
Expire(k) ==
  /\ cache[k] # NoEntry
  /\ cache' = [cache EXCEPT ![k] = NoEntry]
  /\ first' = [first EXCEPT ![k] = NoResponse]
  /\ changed' = [changed EXCEPT ![k] = FALSE]
  /\ UNCHANGED <<calc, env, req, last, pending, views, arrivals>>

\* a page is viewed: the backend's count of it grows
PageView(i) ==
  /\ views[i] < InitialViews[i] + MaxViews
  /\ views' = [views EXCEPT ![i] = @ + 1]
  /\ UNCHANGED <<calc, env, req, last, cache, pending, arrivals, first, changed>>

Next ==
  \/ \E r \in Slots, method \in Methods, url \in Urls : Arrive(r, method, url)
  \/ \E r \in Slots : CacheMatch(r)
  \/ \E r \in Slots, token \in AuthOutcomes : GetGoogleAuthTokenReturn(r, token)
  \/ \E r \in Slots, shape \in BackendShapes : FetchReturn(r, shape)
  \/ \E r \in Slots : TextReturn(r)
  \/ \E r \in Slots : JsonReturn(r)
  \/ \E id \in 1..MaxArrivals : CachePutComplete(id)
  \/ \E k \in Keys : Expire(k)
  \/ \E i \in 1..Len(Pages) : PageView(i)

Spec == Init /\ [][Next]_vars

\* ctx.waitUntil keeps the invocation alive until each cache.put handed to
\* it has completed
FairSpec == Spec /\ \A id \in 1..MaxArrivals : WF_vars(CachePutComplete(id))

\* the step of invocation r that follows the answer it awaits
HandlerStep(r) ==
  \/ CacheMatch(r)
  \/ \E token \in AuthOutcomes : GetGoogleAuthTokenReturn(r, token)
  \/ \E shape \in BackendShapes : FetchReturn(r, shape)
  \/ TextReturn(r)
  \/ JsonReturn(r)

\* The cache lookup, the auth collaborator, the backend and the reading of
\* its body each answer, with a result or with a failure: weak fairness of
\* HandlerStep(r), with the ENABLED of WF_vars(HandlerStep(r)) written out,
\* the step being enabled exactly when invocation r is at an await.
Answered(r) == []<>(req[r].pc = "idle") \/ []<><<HandlerStep(r)>>_vars

LiveSpec == Spec /\ \A r \in Slots : Answered(r)

\* ------------------------------------------------- helpers studied alone
\* Each helper of the worker is also run on its own, from inputs of its
\* parameter types, the worker standing idle.
Idle ==
  /\ env = [SERVICE_ACCOUNT_CREDENTIALS |-> "valid"]
  /\ Started

\* the most rows a report document has, and the most values one of a
\* row's lists has
MaxRows == 2
MaxSlots == 2

\* MetricValue.value as a report document can carry it: a count, text that
\* is no number, or nothing
MetricTexts == {<<"7">>, <<"3", "5">>, <<"n", "/", "a">>, Undefined}

SeqsUpTo(S, n) == UNION {[1..k -> S] : k \in 0..n}

\* GoogleAnalyticsReport.ReportRow
ReportRows ==
  [ dimensionValues : {<< [value |-> Pages[i]] >> : i \in 1..Len(Pages)},
    metricValues : SeqsUpTo([value : MetricTexts], MaxSlots) ]

\* GoogleAnalyticsReport.Report: rows is optional
ReportDocuments ==
  {NoData} \cup {[hasRows |-> TRUE, rows |-> rows] : rows \in SeqsUpTo(ReportRows, MaxRows)}

AggregateInit ==
  /\ Idle
  /\ calc \in {[fn |-> "aggregate", done |-> FALSE, data |-> data,
                counts |-> Num(0), dimensionValues |-> <<>>] : data \in ReportDocuments}

\* lines 217-220: counts and dimensionValues of a parsed report document
Aggregate ==
  /\ calc.fn = "aggregate"
  /\ ~calc.done
  /\ calc' = [calc EXCEPT !.done = TRUE,
                          !.counts = Counts(calc.data),
                          !.dimensionValues = getValues(calc.data, "dimensionValues")]
  /\ UNCHANGED <<env, req, last, cache, pending, views, arrivals, first, changed>>

AggregateSpec == AggregateInit /\ [][Aggregate]_vars

\* every integer up to MaxUnits in size is formatted, and of the larger
\* ones every one that lies halfway between two tenths, up to MaxMillions
\* millions
MaxUnits == 2000
MaxMillions == 3

Thousand == 1000
Million == 1000000

FormatInputs ==
  LET sizes == (0..MaxUnits)
                 \cup {50 * k : k \in 0..(Million \div 50)}
                 \cup ((Million - 100)..(Million + 100))
                 \cup {50000 * k : k \in 0..(20 * MaxMillions)}
  IN  sizes \cup {0 - n : n \in sizes}

FormatNumberInit ==
  /\ Idle
  /\ calc \in {[fn |-> "formatNumber", done |-> FALSE, num |-> n,
                result |-> <<>>, negated |-> <<>>] : n \in FormatInputs}

\* formatNumber(num) and formatNumber(-num)
FormatNumber ==
  /\ calc.fn = "formatNumber"
  /\ ~calc.done
  /\ calc' = [calc EXCEPT !.done = TRUE,
                          !.result = formatNumber(Num(calc.num)),
                          !.negated = formatNumber(Num(0 - calc.num))]
  /\ UNCHANGED <<env, req, last, cache, pending, views, arrivals, first, changed>>

FormatNumberSpec == FormatNumberInit /\ [][FormatNumber]_vars

\* the longest parameter value tried
MaxPathLen == 2

\* the characters a parameter value is made of
PathChars == {" ", "A", "b"}

\* the parameter names tried: page_path, one that matches it after
\* trimming and lower-casing, and another parameter
ParamNames == {PagePathName, UrlB[1][1], UrlNone[1][1]}

SearchParams == ParamNames \X SeqsUpTo(PathChars, MaxPathLen)

\* query strings of up to two parameters
QueryStrings == SeqsUpTo(SearchParams, 2)

BuildQueryInit ==
  /\ Idle
  /\ calc \in {[fn |-> "requestBody", done |-> FALSE, url |-> url,
                page_path |-> Undefined, rejected |-> FALSE,
                matchType |-> "", value |-> <<>>] : url \in QueryStrings}

\* lines 158-185: page_path is looked up and checked, and the filter of
\* the report request is built from it
BuildQuery ==
  /\ calc.fn = "requestBody"
  /\ ~calc.done
  /\ LET page_path == FindPagePath(calc.url)
     IN  calc' = IF Falsy(page_path)
                 THEN [calc EXCEPT !.done = TRUE, !.page_path = page_path,
                                   !.rejected = TRUE]
                 ELSE [calc EXCEPT !.done = TRUE, !.page_path = page_path,
                                   !.matchType = "CONTAINS",
                                   !.value = FilterValue(page_path)]
  /\ UNCHANGED <<env, req, last, cache, pending, views, arrivals, first, changed>>

BuildQuerySpec == BuildQueryInit /\ [][BuildQuery]_vars

\* the most metadata strings a badge is given, and the longest of them
MaxItems == 2
MaxItemLen == 4

\* the characters a metadata string is made of
ItemChars == {"-", ">", "a"}

BadgeLabels == {Readers, <<>>}

BadgeValues == {<<"4", "2">>, <<"1", ".", "5", "K">>}

MetadataLists == SeqsUpTo(SeqsUpTo(ItemChars, MaxItemLen), MaxItems)

GenerateBadgeInit ==
  /\ Idle
  /\ calc \in {[fn |-> "generateBadge", done |-> FALSE, label |-> label, value |-> value,
                metadata |-> metadata, badge |-> NoBadge] :
                  label \in BadgeLabels, value \in BadgeValues, metadata \in MetadataLists}

GenerateBadge ==
  /\ calc.fn = "generateBadge"
  /\ ~calc.done
  /\ calc' = [calc EXCEPT !.done = TRUE,
                          !.badge = generateBadge(calc.label, calc.value, calc.metadata)]
  /\ UNCHANGED <<env, req, last, cache, pending, views, arrivals, first, changed>>

GenerateBadgeSpec == GenerateBadgeInit /\ [][GenerateBadge]_vars

\* ------------------------------------------------------------------ claims
\* the invocations there are to speak of: those in progress and the one
\* that returned last
Invocations == {x \in {req[r] : r \in Slots} \cup {last} : x.pc # "idle"}

\* invocation r takes a step and returns in it
Returns(r) ==
  /\ req[r].pc # "idle"
  /\ req'[r].pc = "idle"
  /\ last'.id = req[r].id
  /\ last'.pc = "done"

\* invocation r leaves its cache lookup, an entry being stored under its
\* request identity
FoundEntry(r) ==
  /\ req[r].pc = "cache.match"
  /\ req'[r] # req[r]
  /\ cache[<<req[r].method, req[r].url>>] # NoEntry

\* C1: a request that finds an entry under its request identity returns
\* that stored response unmodified and starts no token acquisition, no
\* backend call and no cache write.
C1_HitServesStored ==
  [][\A r \in Slots :
       FoundEntry(r) =>
         /\ Returns(r)
         /\ last'.hit
         /\ last'.response = cache[<<req[r].method, req[r].url>>].response
         /\ last'.authCalls = 0
         /\ last'.backendCalls = 0
         /\ last'.cachePuts = 0
         /\ cache' = cache
         /\ pending' = pending]_vars

C1_Witness ==
  /\ last.pc = "done"
  /\ last.hit
  /\ last.response.status = 200
  /\ last.authCalls = 0

\* C2 as stated: once a write for a key has completed, every later request
\* with that identity, before the entry expires, returns the response the
\* first caller got on its miss, and calls no backend.
C2_Original ==
  [][\A r \in Slots :
       FoundEntry(r) =>
         /\ Returns(r)
         /\ last'.response = first[<<req[r].method, req[r].url>>]
         /\ last'.backendCalls = 0]_vars

\* C2 amended: such a request returns the response stored at its lookup and
\* calls no backend; that response is the first caller's unless a write of
\* another miss for the same key has replaced it by a different render.
C2_HitIdempotent ==
  [][\A r \in Slots :
       FoundEntry(r) =>
         LET k == <<req[r].method, req[r].url>>
         IN  /\ Returns(r)
             /\ last'.response = cache[k].response
             /\ last'.response.status = 200
             /\ last'.backendCalls = 0
             /\ last'.response = first[k] \/ changed[k]]_vars

C2_Witness ==
  LET k == <<last.method, last.url>>
  IN  /\ last.pc = "done"
      /\ last.hit
      /\ last.backendCalls = 0
      /\ first[k] # NoResponse
      /\ ~changed[k]
      /\ last.response = first[k]

\* C3: the entry stored under the identity of a request was rendered from
\* a report queried for that request's own page_path (normalised), its
\* metadata names only pages that match it, and a hit returns content
\* rendered for the request's own page_path.
C3_QueryIsolation ==
  /\ \A k \in Keys :
       cache[k] # NoEntry =>
         /\ k[1] = "GET"
         /\ FindPagePath(k[2]) \notin {Undefined, <<>>}
         /\ cache[k].query = trim(toLowerCase(FindPagePath(k[2])))
         /\ \A i \in 1..Len(cache[k].response.body.badge.metadataComments) :
              \E j \in 1..Len(Pages) :
                /\ Contains(Pages[j], trim(toLowerCase(FindPagePath(k[2]))))
                /\ cache[k].response.body.badge.metadataComments[i] = MetadataComment(Pages[j])
  /\ last.hit => last.renderedFor = trim(toLowerCase(FindPagePath(last.url)))

C3_Witness ==
  /\ cache[<<"GET", UrlA>>] # NoEntry
  /\ cache[<<"GET", UrlB>>] # NoEntry
  /\ cache[<<"GET", UrlA>>].response # cache[<<"GET", UrlB>>].response
  /\ last.pc = "done"
  /\ last.hit

\* C4: a request that ends in an error (405 or 500) leaves the cache and
\* the pending cache writes as they were, and every entry stored or about
\* to be stored is a 200 badge response.
C4_OnlySuccessCached ==
  [][/\ \A r \in Slots :
          (Returns(r) /\ last'.response.status # 200) =>
            /\ last'.response.status \in {405, 500}
            /\ cache' = cache
            /\ pending' = pending
            /\ last'.cachePuts = 0
     /\ \A k \in Keys :
          cache'[k] # NoEntry =>
            /\ cache'[k].response.status = 200
            /\ cache'[k].response.body.kind = "svg"
     /\ \A w \in pending' :
          /\ w.entry.response.status = 200
          /\ w.entry.response.body.kind = "svg"]_vars

C4_Witness ==
  /\ \E k \in Keys : cache[k] # NoEntry
  /\ last.pc = "done"
  /\ last.response.status = 500
  /\ ~last.hit

\* C5 as stated: a request whose method is not GET starts no token
\* acquisition and ends with status 405.
C5_Original ==
  \A x \in Invocations :
    x.method # "GET" =>
      /\ x.authCalls = 0
      /\ x.pc = "done" => x.response.status = 405

\* C6: a request with a method other than GET, or without a page_path or
\* with an empty one, never has a backend call made for it.
C6_RejectedNeverCallsBackend ==
  \A x \in Invocations :
    (x.method # "GET" \/ FindPagePath(x.url) \in {Undefined, <<>>}) =>
      /\ x.backendCalls = 0
      /\ x.pc \notin {"fetch", "text", "json"}
      /\ x.response.status # 200

C6_Witness ==
  /\ last.pc = "done"
  /\ last.method = "POST"
  /\ last.response.status = 405
  /\ last.backendCalls = 0
  /\ \E k \in Keys : cache[k] # NoEntry

\* C7: a GET on a cache miss, holding a token, whose query string has no
\* page_path or an empty one ends with status 405 and a plain-text body.
C7_MissingParameter ==
  \A x \in Invocations :
    (x.method = "GET" /\ x.token = "token"
       /\ FindPagePath(x.url) \in {Undefined, <<>>}) =>
      /\ x.pc = "done"
      /\ ~x.hit
      /\ x.response.status = 405
      /\ x.response.contentType = "text/plain"
      /\ x.response.body.kind = "text"

C7_Witness ==
  /\ last.pc = "done"
  /\ last.method = "GET"
  /\ last.token = "token"
  /\ last.url = UrlEmpty
  /\ last.response.status = 405

\* C8: when the auth collaborator returns no token the request ends with a
\* 500 JSON error: one token acquisition, no backend call, no cache write.
C8_AuthError ==
  \A x \in Invocations :
    x.token = "undefined" =>
      /\ x.pc = "done"
      /\ ~x.hit
      /\ x.response.status = 500
      /\ x.response.contentType = "application/json"
      /\ x.response.body.kind = "json"
      /\ x.authCalls = 1
      /\ x.backendCalls = 0
      /\ x.cachePuts = 0
      /\ \A w \in pending : w.id # x.id

C8_Witness ==
  /\ last.pc = "done"
  /\ last.token = "undefined"
  /\ last.response.status = 500
  /\ last.method = "GET"
  /\ last.url = UrlA

\* C9: when the backend has answered with a non-success status, the
\* request's next step ends it with a 500 JSON response whose error field
\* is the backend's error body; the backend has been called once for it,
\* and neither the cache nor the pending cache writes change.
C9_UpstreamError ==
  [][\A r \in Slots :
       (/\ req[r].pc \in {"text", "json"}
        /\ ~req[r].analyticsResponse.ok
        /\ req'[r] # req[r]) =>
         /\ Returns(r)
         /\ last'.response.status = 500
         /\ last'.response.contentType = "application/json"
         /\ last'.response.body.kind = "json"
         /\ last'.response.body.error = req[r].analyticsResponse.errorBody
         /\ last'.backendCalls = 1
         /\ last'.cachePuts = 0
         /\ cache' = cache
         /\ pending' = pending]_vars

C9_Witness ==
  /\ last.pc = "done"
  /\ last.response.status = 500
  /\ last.response.body.error = "PERMISSION_DENIED"
  /\ last.backendCalls = 1

\* C10: the step that hands a cache write to the runtime is the step that
\* returns the response, with the write still pending; a completing write
\* stores its entry; and every pending write eventually completes.
C10_FireAndForget ==
  /\ [][/\ \A r \in Slots :
             (Returns(r) /\ last'.response.status = 200 /\ ~last'.hit) =>
               /\ last'.cachePuts = 1
               /\ \E w \in pending' \ pending :
                    /\ w.id = last'.id
                    /\ w.key = <<last'.method, last'.url>>
                    /\ w.entry.response = last'.response
        /\ \A w \in pending \ pending' : cache'[w.key] = w.entry]_vars
  /\ \A id \in 1..MaxArrivals :
       (\E w \in pending : w.id = id) ~> ~(\E w \in pending : w.id = id)

C10_Witness ==
  /\ last.pc = "done"
  /\ last.response.status = 200
  /\ ~last.hit
  /\ \E w \in pending : w.id = last.id /\ cache[w.key] = NoEntry


\* C11: a request whose lookup finds an entry under its identity is answered
\* with the cached 200 without the token or the backend being asked, so
\* whatever they would answer; a request that finds none and whose
\* credentials, token acquisition or backend call fails ends with a 500.
C11_FailureMasking ==
  [][\A r \in Slots :
       /\ FoundEntry(r) =>
            /\ Returns(r)
            /\ last'.hit
            /\ last'.response.status = 200
            /\ last'.response = cache[<<req[r].method, req[r].url>>].response
            /\ last'.authCalls = 0
            /\ last'.backendCalls = 0
       /\ (/\ Returns(r)
           /\ cache[<<req[r].method, req[r].url>>] = NoEntry \/ req[r].pc # "cache.match"
           /\ \/ req[r].pc = "cache.match"
              \/ req[r].pc = "getGoogleAuthToken" /\ last'.token # "token"
              \/ req[r].pc = "fetch"
              \/ req[r].pc = "text") =>
            /\ ~last'.hit
            /\ last'.response.status = 500
            /\ last'.response.body.kind = "json"
            /\ last'.response.body.error # ""]_vars

C11_Witness ==
  /\ last.pc = "done"
  /\ last.hit
  /\ last.response.status = 200
  /\ \E r \in Slots :
       /\ req[r].pc = "text"
       /\ req[r].method = last.method
       /\ req[r].url = last.url


\* what a metric value contributes to the total when text that is no
\* number, and a missing value, count as 0
RECURSIVE C12_Decimal(_)
C12_Decimal(text) ==
  IF text = <<>> THEN 0
  ELSE 10 * C12_Decimal(SubSeq(text, 1, Len(text) - 1))
         + (CHOOSE d \in 0..9 : ToDecimal(d) = <<text[Len(text)]>>)

C12_Contribution(text) ==
  IF text = Undefined \/ text = <<>> \/ \E i \in 1..Len(text) : ~IsDigit(text[i])
  THEN 0
  ELSE C12_Decimal(text)

RECURSIVE C12_SlotSum(_)
C12_SlotSum(slots) ==
  IF slots = <<>> THEN 0
  ELSE C12_Contribution(Head(slots).value) + C12_SlotSum(Tail(slots))

RECURSIVE C12_RowSum(_)
C12_RowSum(rows) ==
  IF rows = <<>> THEN 0
  ELSE C12_SlotSum(Head(rows).metricValues) + C12_RowSum(Tail(rows))

\* C12: the total of a report document is a number, the sum over all rows
\* and all metric-value slots of the value read as a base-10 integer, a
\* missing or non-numeric value counting 0; without rows the total is 0
\* and the dimension list is empty.
C12_Original ==
  (calc.fn = "aggregate" /\ calc.done) =>
    /\ ~calc.counts.nan
    /\ calc.counts.n = C12_RowSum(calc.data.rows)
    /\ calc.data.rows = <<>> => calc.dimensionValues = <<>>


\* text is a decimal numeral without leading zeros
C13_IsNumeral(text) ==
  /\ text # <<>>
  /\ \A i \in 1..Len(text) : text[i] \in {"0", "1", "2", "3", "4", "5", "6", "7", "8", "9"}
  /\ Len(text) > 1 => text[1] # "0"

\* text is the decimal numeral of n
C13_Numeral(text, n) == C13_IsNumeral(text) /\ C12_Decimal(text) = n

\* text shows size / divisor: the whole quotient without decimals, or
\* else one decimal digit, the tenths being nearest to the quotient
C13_Quotient(text, size, divisor) ==
  IF size % divisor = 0
  THEN C13_Numeral(text, size \div divisor)
  ELSE /\ Len(text) >= 3
       /\ text[Len(text) - 1] = "."
       /\ C13_IsNumeral(SubSeq(text, 1, Len(text) - 2))
       /\ C13_IsNumeral(<<text[Len(text)]>>)
       /\ LET whole == C12_Decimal(SubSeq(text, 1, Len(text) - 2))
              digit == C12_Decimal(<<text[Len(text)]>>)
          IN  2 * Abs((10 * whole + digit) * divisor - 10 * size) <= divisor

C13_Band(text, size) ==
  IF size < 1000
  THEN C13_Numeral(text, size)
  ELSE /\ Len(text) >= 2
       /\ IF size < 1000000
          THEN /\ text[Len(text)] = "K"
               /\ C13_Quotient(SubSeq(text, 1, Len(text) - 1), size, 1000)
          ELSE /\ text[Len(text)] = "M"
               /\ C13_Quotient(SubSeq(text, 1, Len(text) - 1), size, 1000000)

\* C13: formatNumber gives a text for every integer: below 1000 in size the
\* integer itself; from 1000 up to a million the size over 1000 with one
\* decimal digit, or none when the quotient is whole, and K; from a million
\* on the same over 1,000,000 and M; negative numbers get a leading "-", so
\* format(-n) = "-" + format(n) for n > 0; and the seven examples hold.
C13_ThreeBands ==
  (calc.fn = "formatNumber" /\ calc.done) =>
    /\ calc.result # <<>>
    /\ IF calc.num < 0
       THEN /\ Head(calc.result) = "-"
            /\ C13_Band(Tail(calc.result), 0 - calc.num)
       ELSE C13_Band(calc.result, calc.num)
    /\ calc.num > 0 => calc.negated = <<"-">> \o calc.result
    /\ calc.num = 0 => calc.result = <<"0">>
    /\ calc.num = 999 => calc.result = <<"9", "9", "9">>
    /\ calc.num = 1000 => calc.result = <<"1", "K">>
    /\ calc.num = 1500 => calc.result = <<"1", ".", "5", "K">>
    /\ calc.num = 0 - 2500 => calc.result = <<"-", "2", ".", "5", "K">>
    /\ calc.num = 1000000 => calc.result = <<"1", "M">>
    /\ calc.num = 2500000 => calc.result = <<"2", ".", "5", "M">>

\* a quotient halfway between two tenths has been formatted: 1150 / 1000
C13_Witness ==
  /\ calc.fn = "formatNumber"
  /\ calc.done
  /\ calc.num = 1150
  /\ calc.result = <<"1", ".", "1", "K">>
  /\ calc.negated = <<"-", "1", ".", "1", "K">>


\* C14: a GET with a page_path that missed the cache, got a token and got
\* a report that parses, returns 200 with the badge's value text
\* formatNumber(T), T the sum of the rows' metric values ("42" for a single
\* row with metric 42), Content-Type image/svg+xml,
\* Access-Control-Allow-Origin * and max-age 2700.
C14_EndToEndSuccess ==
  [][\A r \in Slots :
       (/\ req[r].pc = "json"
        /\ req[r].analyticsResponse.parses
        /\ req'[r] # req[r]) =>
         LET rows == req[r].analyticsResponse.data.rows
         IN  /\ req[r].method = "GET"
             /\ FindPagePath(req[r].url) \notin {Undefined, <<>>}
             /\ ~req[r].hit
             /\ req[r].token = "token"
             /\ Returns(r)
             /\ last'.response.status = 200
             /\ last'.response.contentType = "image/svg+xml"
             /\ last'.response.allowOrigin = "*"
             /\ last'.response.cacheControl = 2700
             /\ last'.response.body.kind = "svg"
             /\ last'.response.body.badge.valueText = formatNumber(Num(C12_RowSum(rows)))
             /\ (Len(rows) = 1 /\ rows[1].metricValues = << [value |-> <<"4", "2">>] >>) =>
                  last'.response.body.badge.valueText = <<"4", "2">>]_vars

C14_Witness ==
  /\ last.pc = "done"
  /\ ~last.hit
  /\ last.method = "GET"
  /\ last.response.status = 200
  /\ last.response.cacheControl = 2700
  /\ last.response.body.badge.valueText = <<"4", "2">>


\* C15: nothing keeps two requests for one uncached page_path from both
\* missing, both calling the backend and both writing; every write handed
\* off is the whole response one request returned, and a completing write
\* replaces whatever is stored under its key by exactly that, so that the
\* entry left is one request's render whole: the one written last.
C15_LastWriteWins ==
  [][/\ \A r \in Slots :
          Returns(r) =>
            \A w \in pending' \ pending :
              /\ w.id = req[r].id
              /\ w.key = <<req[r].method, req[r].url>>
              /\ w.entry.response = last'.response
              /\ w.entry.query = req[r].renderedFor
              /\ req[r].backendCalls = 1
              /\ ~req[r].hit
     /\ \A k \in Keys :
          (cache'[k] # cache[k] /\ cache'[k] # NoEntry) =>
            /\ Cardinality(pending \ pending') = 1
            /\ \E w \in pending \ pending' : w.key = k /\ cache'[k] = w.entry
     /\ \A w \in pending \ pending' :
          /\ cache'[w.key] = w.entry
          /\ \A k \in Keys \ {w.key} : cache'[k] = cache[k]]_vars

\* two requests for one key are past their lookup and their backend call
\* at once, nothing being stored, with different reports in hand
C15_BothMiss ==
  \E r, q \in Slots :
    /\ r # q
    /\ req[r].pc = "json" /\ req[q].pc = "json"
    /\ req[r].method = req[q].method /\ req[r].url = req[q].url
    /\ req[r].backendCalls = 1 /\ req[q].backendCalls = 1
    /\ req[r].analyticsResponse.parses /\ req[q].analyticsResponse.parses
    /\ req[r].analyticsResponse.data # req[q].analyticsResponse.data
    /\ cache[<<req[r].method, req[r].url>>] = NoEntry

\* both writes for one key have been handed off, the one is complete and
\* the other, of another render, replaces it next
C15_Witness ==
  \E w \in pending, k \in Keys :
    /\ w.key = k
    /\ cache[k] # NoEntry
    /\ cache[k].response = first[k]
    /\ cache[k].response # w.entry.response
    /\ cache[k].query = w.entry.query
    /\ req = [r \in Slots |-> IdleRequest]


\* the count a stored badge response shows
C16_ShownCount(response) == C12_Decimal(response.body.badge.valueText)

\* C16 as stated: with backend counts that only grow, an entry is never
\* replaced by a render built from an older report than its own, so the
\* count an entry shows never goes down when the entry is overwritten.
C16_Original ==
  [][\A k \in Keys :
       (cache[k] # NoEntry /\ cache'[k] # NoEntry) =>
         C16_ShownCount(cache'[k].response) >= C16_ShownCount(cache[k].response)]_vars

\* C16, amended: an entry changes only by expiring, no request taking a
\* step, or by a completing cache write storing its successful render of
\* the same query; that render may be built from an older report than the
\* entry it replaces.
C16_EntryChanges ==
  [][\A k \in Keys :
       cache'[k] # cache[k] =>
         \/ /\ cache'[k] = NoEntry
            /\ req' = req
            /\ last' = last
            /\ pending' = pending
         \/ \E w \in pending \ pending' :
              /\ w.key = k
              /\ cache'[k] = w.entry
              /\ w.entry.response.status = 200
              /\ w.entry.response.body.kind = "svg"
              /\ cache[k] # NoEntry => cache[k].query = w.entry.query
              /\ req' = req
              /\ last' = last]_vars

\* the entry stored shows fewer views than the one first stored under the
\* key: a render from an older report has replaced a newer one
C16_Witness ==
  \E k \in Keys :
    /\ cache[k] # NoEntry
    /\ first[k] # NoResponse
    /\ changed[k]
    /\ C16_ShownCount(cache[k].response) < C16_ShownCount(first[k])


\* the await an invocation can be at after the one it is at, on a miss
C17_After(pc) ==
  CASE pc = "idle" -> {"cache.match"}
    [] pc = "cache.match" -> {"getGoogleAuthToken", "idle"}
    [] pc = "getGoogleAuthToken" -> {"fetch", "idle"}
    [] pc = "fetch" -> {"text", "json", "idle"}
    [] pc = "text" -> {"idle"}
    [] pc = "json" -> {"idle"}

\* what an invocation has done when it is at an await
C17_DoneSoFar(x) ==
  /\ x.pc = "cache.match" => x.authCalls = 0 /\ x.backendCalls = 0 /\ x.cachePuts = 0
  /\ x.pc = "getGoogleAuthToken" => x.authCalls = 1 /\ x.backendCalls = 0 /\ x.cachePuts = 0
  /\ x.pc \in {"fetch", "text", "json"} =>
       x.authCalls = 1 /\ x.backendCalls = 1 /\ x.cachePuts = 0
  /\ x.pc = "done" =>
       /\ x.authCalls <= 1 /\ x.backendCalls <= x.authCalls /\ x.cachePuts <= x.backendCalls
       /\ x.hit => x.authCalls = 0

\* C17: a request goes through cache check, token acquisition, backend
\* call and reading of the answer in that order, one await at a time, each
\* step taken once; its cache write is handed off only in the step that
\* returns; it acquires at most one token, calls the backend at most once
\* and writes the cache at most once.
C17_SequentialPipeline ==
  [][\A r \in Slots :
       /\ req'[r] # req[r] =>
            /\ req'[r].pc \in C17_After(req[r].pc)
            /\ req'[r].pc # "idle" => req'[r].id = (IF req[r].pc = "idle" THEN arrivals + 1
                                                    ELSE req[r].id)
            /\ req'[r].authCalls =
                 (IF req'[r].pc = "getGoogleAuthToken" THEN 1
                  ELSE IF req'[r].pc = "idle" THEN 0 ELSE req[r].authCalls)
            /\ req'[r].backendCalls =
                 (IF req'[r].pc = "fetch" THEN 1
                  ELSE IF req'[r].pc = "idle" THEN 0 ELSE req[r].backendCalls)
            /\ \A q \in Slots \ {r} : req'[q] = req[q]
       /\ C17_DoneSoFar(req'[r])
       /\ C17_DoneSoFar(last')
       /\ req'[r].pc # "idle" =>
            /\ \A w \in pending' : w.id # req'[r].id
            /\ \A q \in Slots \ {r} : req'[q].pc # "idle" => req'[q].id # req'[r].id
       /\ Cardinality(pending' \ pending) <= 1
       /\ \A w \in pending' \ pending : Returns(r) => last'.cachePuts = 1]_vars

C17_Witness ==
  /\ last.pc = "done"
  /\ ~last.hit
  /\ last.authCalls = 1
  /\ last.backendCalls = 1
  /\ last.cachePuts = 1
  /\ last.response.status = 200
  /\ \E r \in Slots : req[r].pc = "fetch" /\ req[r].backendCalls = 1


\* text consists of whitespace only, or of nothing
C18_Blank(text) == \A i \in 1..Len(text) : text[i] = " "

\* C18: a query built for the backend has match type CONTAINS and as
\* filter value the supplied page_path trimmed and lower-cased, which is
\* not empty; a page_path that is absent, empty or whitespace only is
\* rejected and no query is built.
C18_Original ==
  (calc.fn = "requestBody" /\ calc.done) =>
    /\ ~calc.rejected =>
         /\ calc.matchType = "CONTAINS"
         /\ calc.value = trim(toLowerCase(calc.page_path))
         /\ calc.value # <<>>
    /\ (calc.page_path = Undefined \/ C18_Blank(calc.page_path)) => calc.rejected


\* the places of text where the comment terminator stands
C19_Terminators(text) ==
  {i \in 1..(Len(text) - 2) : text[i] = "-" /\ text[i + 1] = "-" /\ text[i + 2] = ">"}

\* C19: the badge of (label, value, metadata) has label width and value
\* width of 8 per character plus 10 each, their sum as width and height
\* 20; it has one comment per metadata string, in their order, each opened
\* by the comment marker and closed by the only "-->" it contains.
C19_Badge ==
  (calc.fn = "generateBadge" /\ calc.done) =>
    LET badge == calc.badge
    IN  /\ badge.labelWidth = Len(calc.label) * 8 + 10
        /\ badge.valueWidth = Len(calc.value) * 8 + 10
        /\ badge.totalWidth = (Len(calc.label) + Len(calc.value)) * 8 + 20
        /\ badge.height = 20
        /\ badge.label = calc.label
        /\ badge.valueText = calc.value
        /\ Len(badge.metadataComments) = Len(calc.metadata)
        /\ \A i \in 1..Len(calc.metadata) :
             LET comment == badge.metadataComments[i]
                 item == calc.metadata[i]
             IN  /\ Len(comment) >= 10
                 /\ SubSeq(comment, 1, 4) = <<"<", "!", "-", "-">>
                 /\ C19_Terminators(comment) = {Len(comment) - 2}
                 /\ C19_Terminators(item) = {} =>
                      SubSeq(comment, 7, Len(comment) - 4) = item
                 /\ Cardinality({j \in 1..Len(comment) : comment[j] = "a"})
                      = Cardinality({j \in 1..Len(item) : item[j] = "a"})

\* a badge has been made of two metadata strings, the first of which
\* holds the comment terminator
C19_Witness ==
  /\ calc.fn = "generateBadge"
  /\ calc.done
  /\ calc.metadata = << <<"-", "-", "-", ">">>, <<"a", ">">> >>
  /\ calc.badge.metadataComments[1] =
       <<"<", "!", "-", "-", " ", "METADATA: ", "-", "U+00E2", "U+20AC", "U+201D", ">",
         " ", "-", "-", ">">>
  /\ calc.badge.metadataComments[2] =
       <<"<", "!", "-", "-", " ", "METADATA: ", "a", ">", " ", "-", "-", ">">>


\* C20: when what it awaits answers, an invocation ends, with one response
\* of status 200, 405 or 500; a fault thrown in the handler (malformed
\* credentials, a failed token acquisition, a failed backend call, a
\* backend payload that does not parse) ends it with a 500 whose JSON body
\* carries an error message and a timestamp.
C20_Terminates ==
  /\ [][/\ \A r \in Slots :
             /\ Returns(r) =>
                  /\ last'.response.status \in {200, 405, 500}
                  /\ req'[r] = IdleRequest
                  /\ \A q \in Slots : req'[q].pc # "idle" => req'[q].id # last'.id
             /\ (/\ Returns(r)
                 /\ \/ req[r].pc = "cache.match" /\ ~last'.hit
                    \/ req[r].pc = "getGoogleAuthToken" /\ last'.token # "token"
                    \/ req[r].pc = "fetch"
                    \/ req[r].pc = "json" /\ ~req[r].analyticsResponse.parses) =>
                  /\ last'.response.status = 500
                  /\ last'.response.contentType = "application/json"
                  /\ last'.response.body.kind = "json"
                  /\ last'.response.body.error # ""
                  /\ last'.response.body.timestamp
             /\ (req[r].pc # "idle" /\ req'[r] # req[r]) =>
                  \/ Returns(r)
                  \/ req'[r].pc \notin {"idle", req[r].pc} /\ req'[r].id = req[r].id
        /\ last' # last => \E r \in Slots : Returns(r)]_vars
  /\ \A r \in Slots : (req[r].pc # "idle") ~> (req[r].pc = "idle")

\* a request whose backend payload did not parse has ended in the catch
\* block, while another is still in progress
C20_Witness ==
  /\ last.pc = "done"
  /\ last.backendCalls = 1
  /\ last.response.status = 500
  /\ last.response.body.timestamp
  /\ last.response.body.error = "Unexpected end of JSON input"
  /\ \E r \in Slots : req[r].pc = "getGoogleAuthToken"

====
